---- MODULE Spec2Model ----
(***************************************************************************)
(* Model of sphere_base's SurfaceEdge (edge/surface_edge.py) and Camera    *)
(* (sphere_universe_base/suv_cam.py).                                      *)
(*                                                                         *)
(* One edge on one sphere is followed through its handlers.  A point of    *)
(* the great circle through the two endpoint sockets is named by its arc   *)
(* parameter, a rational <<num, den>>: 0 is the start socket's             *)
(* orientation, 1 the end socket's.  quaternion.slerp is linear in that    *)
(* parameter.                                                              *)
(***************************************************************************)
EXTENDS Integers, Sequences, FiniteSets, TLC

\* ------------------------------------------------------------------ bounds
NumSockets == 3
MaxPoints == 4
MaxR == 2
MaxLn == 2
MaxHandle == 1
MaxCoord == 2
MaxQueue == 2

\* Python's None, apart from every socket and every handle.
None == -1
Sockets == 1..NumSockets
Handles == 0..MaxHandle

VARIABLES
    start_socket,         \* SurfaceEdge._start_socket
    end_socket,           \* SurfaceEdge._end_socket
    socket_edges,         \* per socket: occurrences of the edge in Socket.edges
    sphere_items,         \* TRUE while the sphere's item collection holds the edge
    pos_array,            \* SurfaceEdge.pos_array
    vertices,             \* SurfaceEdge.vertices
    buffer,               \* SurfaceEdge.buffer
    collision_object_id,  \* SurfaceEdge.collision_object_id
    mouse_ray_objects,    \* handles the collision backend holds for the edge
    edge_moved,           \* SurfaceEdge._edge_moved
    pc,                   \* position of the running handler
    last,                 \* the last handler called: arguments, result, outgoing calls
    xyz,                  \* Camera.xyz
    target,               \* Camera.target
    movement_stack,       \* Camera.movement_stack
    target_stack,         \* Camera.target_stack
    view_loc,             \* the shared view-matrix slot (config.set_view_loc)
    cam_last              \* the last Camera method called and what it returned

edgeVars == <<start_socket, end_socket, socket_edges, sphere_items, pos_array,
              vertices, buffer, collision_object_id, mouse_ray_objects,
              edge_moved, pc, last>>
camVars == <<xyz, target, movement_stack, target_stack, view_loc, cam_last>>
vars == <<start_socket, end_socket, socket_edges, sphere_items, pos_array,
          vertices, buffer, collision_object_id, mouse_ray_objects,
          edge_moved, pc, last,
          xyz, target, movement_stack, target_stack, view_loc, cam_last>>

\* ------------------------------------------------------------- rationals
RECURSIVE Gcd(_, _)
Gcd(a, b) == IF b = 0 THEN a ELSE Gcd(b, a % b)

Abs(a) == IF a < 0 THEN -a ELSE a

RNorm(q) ==
    LET g == Gcd(Abs(q[1]), q[2])
    IN  <<q[1] \div g, q[2] \div g>>

RAdd(a, b) == RNorm(<<a[1] * b[2] + b[1] * a[2], a[2] * b[2]>>)
RSub(a, b) == RNorm(<<a[1] * b[2] - b[1] * a[2], a[2] * b[2]>>)
RMul(a, b) == RNorm(<<a[1] * b[1], a[2] * b[2]>>)
RLess(a, b) == a[1] * b[2] < b[1] * a[2]

Zero == <<0, 1>>
One == <<1, 1>>

\* Python's bool() of a collision handle: None and 0 are falsy.
Truthy(h) == h # None /\ h # 0


\* ------------------------------------------------------- Socket (consumed)
\* Socket.add_edge: the socket's edge list gains one occurrence of the edge.
AddEdge(edges, s) == [edges EXCEPT ![s] = @ + 1]

\* Socket.remove_edge: the socket's edge list loses one occurrence of the edge.
RemoveEdge(edges, s) == [edges EXCEPT ![s] = IF @ > 0 THEN @ - 1 ELSE 0]

\* ------------------------------------------------------------- geometry
\* quaternion.slerp along the great circle through a and b.
Slerp(a, b, t) == RAdd(a, RMul(RSub(b, a), t))

\* gr_edge.get_position: the 3D point of an orientation, [pos[0], pos[1], pos[2]].
Position(q) == << <<"x", q>>, <<"y", q>>, <<"z", q>> >>

\* A setter that attaches to the new socket without detaching from the old.
SocketSetter_NoDetach(edges, old, new) ==
    IF new # None THEN AddEdge(edges, new) ELSE edges

\* The start_socket / end_socket setters, on the sockets' back-references.
SocketSetter(edges, old, new) ==
    LET detached == IF old # None THEN RemoveEdge(edges, old) ELSE edges
    IN  IF new # None THEN AddEdge(detached, new) ELSE detached

\* A guard that lets one socket suffice.
BothSet_Either == start_socket # None \/ end_socket # None

\* update_position's guard: both endpoint sockets are set.
BothSet == start_socket # None /\ end_socket # None

\* step = 1 / n if n > 1 else 1
StepOf(n) == IF n > 1 THEN <<1, n>> ELSE One

\* get_edge_start_end: t = r / ln, start = slerp(s_angle, end, t).
GetEdgeStartEnd(r, ln) ==
    [t |-> RNorm(<<r, ln>>), start |-> Slerp(Zero, One, RNorm(<<r, ln>>)), end |-> One]

\* A loop that starts at i = 1: for i in range(1, number_of_vertices).
RECURSIVE LinePoints_FromOne(_, _, _, _)
LinePoints_FromOne(n, step, start, end) ==
    IF n <= 1
    THEN <<>>
    ELSE Append(LinePoints_FromOne(n - 1, step, start, end),
                Position(Slerp(start, end, RMul(step, <<n - 1, 1>>))))

\* The loop of update_line_points_position: for i in range(number_of_vertices),
\* pos_array.append(the position of slerp(start, end, step * i)).
RECURSIVE LinePoints(_, _, _, _)
LinePoints(n, step, start, end) ==
    IF n <= 0
    THEN <<>>
    ELSE Append(LinePoints(n - 1, step, start, end),
                Position(Slerp(start, end, RMul(step, <<n - 1, 1>>))))

\* update_buffers: the points' components appended to one flat list.
RECURSIVE UpdateBuffers(_)
UpdateBuffers(pa) ==
    IF pa = <<>>
    THEN <<>>
    ELSE <<Head(pa)[1], Head(pa)[2], Head(pa)[3]>> \o UpdateBuffers(Tail(pa))

\* The GL calls of load_mesh_into_opengl (float32: 4 bytes an item).
LoadMeshCalls(buf) ==
    << <<"glBindVertexArray", "mesh_id">>,
       <<"glBindBuffer", "buffer_id">>,
       <<"glBufferData", 4 * Len(buf)>>,
       <<"glEnableVertexAttribArray", 0>>,
       <<"glVertexAttribPointer", 3, 4 * 8>>,
       <<"glBindBuffer", 0>>,
       <<"glBindVertexArray", 0>>,
       <<"set_environment">> >>

\* The calls of draw(): the two shader passes, then the raw buffer draw.
DrawCalls(pa, verts) ==
    << <<"draw_edge", Len(pa), "1.5">>, <<"draw_edge", Len(pa), "4">> >>
    \o (IF Len(verts) = 0
        THEN <<>>
        ELSE << <<"glBindVertexArray", "mesh_id">>,
                <<"glBindBuffer", "buffer_id">>,
                <<"glBufferData", Len(verts)>>,
                <<"glEnableVertexAttribArray", 0>>,
                <<"glVertexAttribPointer", 3, 4 * 3>>,
                <<"glDrawArrays", "GL_LINES", 0, 2>>,
                <<"glBindBuffer", 0>>,
                <<"glBindVertexArray", 0>> >>)

\* The calls made when call f of the list raises (f = 0: none does): the ones
\* after it are skipped.
Attempted(calls, f) == IF f = 0 THEN calls ELSE SubSeq(calls, 1, f)

\* load_mesh_into_opengl(): every call is inside the try, so a raising call is
\* caught by "except Exception" and dumped.
LoadMeshOutcome(buf, f) ==
    [calls |-> Attempted(LoadMeshCalls(buf), f), failed |-> f, raised |-> FALSE]

\* draw(): the two shader.draw_edge passes come before the "try:", the raw
\* buffer calls after it; only an exception of the latter is caught.
DrawOutcome(pa, verts, f) ==
    [calls |-> Attempted(DrawCalls(pa, verts), f),
     failed |-> f,
     raised |-> f # 0 /\ DrawCalls(pa, verts)[f][1] = "draw_edge"]

\* The call of draw() that raises, by position: none (0), either shader pass,
\* or glDrawArrays.
DrawFailures == {0, 1, 2, 8}

\* The call of load_mesh_into_opengl() that raises, by position: none (0),
\* glBufferData, or shader.set_environment.
LoadMeshFailures == {0, 3, 8}

\* An is_dragging that stores history on every change of the flag.
IsDraggingResult_StoreOnStart(moved, value) ==
    IF moved = value
    THEN [moved |-> moved, ret |-> value, calls |-> <<>>]
    ELSE [moved |-> value, ret |-> value,
          calls |-> << <<"store_history", "edge moved", TRUE>> >>]

\* is_dragging(value): the new flag, the value returned, the history calls.
IsDraggingResult(moved, value) ==
    IF moved = value
    THEN [moved |-> moved, ret |-> value, calls |-> <<>>]
    ELSE IF moved /\ ~value
    THEN [moved |-> FALSE, ret |-> FALSE,
          calls |-> << <<"store_history", "edge moved", TRUE>> >>]
    ELSE [moved |-> TRUE, ret |-> TRUE, calls |-> <<>>]

\* update_line_points_position(n, step) for every point count, disc radius and
\* arc length: the points it leaves in pos_array and the flat list
\* update_buffers makes of them.
LinePointsTable ==
    [n \in 1..MaxPoints, r \in 1..MaxR, ln \in 1..MaxLn |->
        LET se == GetEdgeStartEnd(r, ln)
            pa == LinePoints(n, StepOf(n), se.start, se.end)
        IN  [pos_array |-> pa, vertices |-> UpdateBuffers(pa)]]

\* What a handler call leaves behind for the caller to observe.
Op(name) ==
    [op |-> name, raised |-> FALSE, calls |-> <<>>,
     n |-> 0, r |-> 0, ln |-> 0, value |-> FALSE, ret |-> FALSE,
     failed |-> 0]

\* calc.get_distance_on_sphere between the endpoint sockets: a socket is at
\* distance 0 from itself.
ArcLengths == IF start_socket = end_socket THEN {0} ELSE 0..MaxLn

\* ------------------------------------------------------------------ Init
\* SurfaceEdge(target_sphere): no socket given, so the constructor's
\* update_position() does nothing.
EdgeInit ==
    /\ start_socket = None
    /\ end_socket = None
    /\ socket_edges = [s \in Sockets |-> 0]
    /\ sphere_items = TRUE
    /\ pos_array = <<>>
    /\ vertices = <<>>
    /\ buffer = <<>>
    /\ collision_object_id = None
    /\ mouse_ray_objects = {}
    /\ edge_moved = FALSE
    /\ pc = "idle"
    /\ last = Op("__init__")

\* ------------------------------------------------------- SurfaceEdge
SetStartSocket(s) ==
    /\ pc = "idle"
    /\ socket_edges' = SocketSetter(socket_edges, start_socket, s)
    /\ start_socket' = s
    /\ last' = Op("start_socket")
    /\ UNCHANGED <<end_socket, sphere_items, pos_array, vertices, buffer,
                   collision_object_id, mouse_ray_objects, edge_moved, pc>>

SetEndSocket(s) ==
    /\ pc = "idle"
    /\ socket_edges' = SocketSetter(socket_edges, end_socket, s)
    /\ end_socket' = s
    /\ last' = Op("end_socket")
    /\ UNCHANGED <<start_socket, sphere_items, pos_array, vertices, buffer,
                   collision_object_id, mouse_ray_objects, edge_moved, pc>>

\* update_position().  n is what gr_edge.get_number_of_points returns, r the
\* start node's node_disc_radius, ln the arc length between the sockets and h
\* the handle create_collision_object returns (the backend refreshes the
\* edge's collision object).  Each is drawn where the code reads it.  The
\* upload at the end is the one in which no call raises; the raising ones are
\* those of LoadMeshIntoOpengl.  With
\* ln = 0, r / ln raises ZeroDivisionError in get_edge_start_end, before
\* anything is assigned.
UpdatePosition ==
    /\ pc = "idle"
    /\ IF ~BothSet
       THEN /\ last' = Op("update_position")
            /\ UNCHANGED <<pos_array, vertices, buffer, collision_object_id,
                           mouse_ray_objects>>
       ELSE \E n \in 0..MaxPoints :
              IF n > 0
              THEN \E r \in 1..MaxR, ln \in ArcLengths :
                     IF ln = 0
                     THEN /\ last' = [Op("update_position") EXCEPT !.raised = TRUE]
                          /\ UNCHANGED <<pos_array, vertices, buffer,
                                         collision_object_id, mouse_ray_objects>>
                     ELSE \E h \in Handles :
                            /\ pos_array' =
                                  LinePointsTable[n, r, ln].pos_array
                            /\ collision_object_id' = h
                            /\ mouse_ray_objects' = {h}
                            /\ vertices' = LinePointsTable[n, r, ln].vertices
                            /\ buffer' = vertices'
                            /\ last' = [Op("update_position") EXCEPT
                                          !.n = n, !.r = r, !.ln = ln,
                                          !.calls =
                                             << <<"create_collision_object",
                                                  Len(pos_array')>> >>
                                             \o LoadMeshOutcome(buffer', 0).calls]
              ELSE /\ last' = [Op("update_position") EXCEPT
                                 !.calls = LoadMeshOutcome(buffer, 0).calls]
                   /\ UNCHANGED <<pos_array, vertices, buffer,
                                  collision_object_id, mouse_ray_objects>>
    /\ UNCHANGED <<start_socket, end_socket, socket_edges, sphere_items,
                   edge_moved, pc>>

IsDragging(value) ==
    /\ pc = "idle"
    /\ LET res == IsDraggingResult(edge_moved, value)
       IN  /\ edge_moved' = res.moved
           /\ last' = [Op("is_dragging") EXCEPT
                         !.value = value, !.ret = res.ret, !.calls = res.calls]
    /\ UNCHANGED <<start_socket, end_socket, socket_edges, sphere_items,
                   pos_array, vertices, buffer, collision_object_id,
                   mouse_ray_objects, pc>>

\* load_mesh_into_opengl(); f is the GL or shader call that raises (0: none).
LoadMeshIntoOpengl(f) ==
    /\ pc = "idle"
    /\ LET out == LoadMeshOutcome(buffer, f)
       IN  last' = [Op("load_mesh_into_opengl") EXCEPT !.calls = out.calls,
                       !.failed = out.failed, !.raised = out.raised]
    /\ UNCHANGED <<start_socket, end_socket, socket_edges, sphere_items,
                   pos_array, vertices, buffer, collision_object_id,
                   mouse_ray_objects, edge_moved, pc>>

\* draw(); f is the shader or GL call that raises (0: none).
Draw(f) ==
    /\ pc = "idle"
    /\ f \in 0..Len(DrawCalls(pos_array, vertices))
    /\ LET out == DrawOutcome(pos_array, vertices, f)
       IN  last' = [Op("draw") EXCEPT !.calls = out.calls,
                       !.failed = out.failed, !.raised = out.raised]
    /\ UNCHANGED <<start_socket, end_socket, socket_edges, sphere_items,
                   pos_array, vertices, buffer, collision_object_id,
                   mouse_ray_objects, edge_moved, pc>>

\* remove(), first statement: self.start_socket.remove_edge(self).  With no
\* start socket the attribute access on None raises and remove() is left.
RemoveStartSocket ==
    /\ pc = "idle"
    /\ IF start_socket = None
       THEN /\ pc' = "remove_raised"
            /\ last' = [Op("remove") EXCEPT !.raised = TRUE]
            /\ UNCHANGED socket_edges
       ELSE /\ pc' = "remove_end_socket"
            /\ last' = Op("remove")
            /\ socket_edges' = RemoveEdge(socket_edges, start_socket)
    /\ UNCHANGED <<start_socket, end_socket, sphere_items, pos_array, vertices,
                   buffer, collision_object_id, mouse_ray_objects, edge_moved>>

\* A remove() that goes on to remove_item without detaching the end socket.
RemoveEndSocket_Skip ==
    /\ pc = "remove_end_socket"
    /\ pc' = "remove_item"
    /\ UNCHANGED <<start_socket, end_socket, socket_edges, sphere_items,
                   pos_array, vertices, buffer, collision_object_id,
                   mouse_ray_objects, edge_moved, last>>

\* remove(), second statement: self.end_socket.remove_edge(self).
RemoveEndSocket ==
    /\ pc = "remove_end_socket"
    /\ IF end_socket = None
       THEN /\ pc' = "remove_raised"
            /\ last' = [last EXCEPT !.raised = TRUE]
            /\ UNCHANGED socket_edges
       ELSE /\ pc' = "remove_item"
            /\ last' = last
            /\ socket_edges' = RemoveEdge(socket_edges, end_socket)
    /\ UNCHANGED <<start_socket, end_socket, sphere_items, pos_array, vertices,
                   buffer, collision_object_id, mouse_ray_objects, edge_moved>>

\* remove(), third statement: self.sphere.remove_item(self).
RemoveItem ==
    /\ pc = "remove_item"
    /\ sphere_items' = FALSE
    /\ pc' = "remove_collision"
    /\ UNCHANGED <<start_socket, end_socket, socket_edges, pos_array, vertices,
                   buffer, collision_object_id, mouse_ray_objects, edge_moved,
                   last>>

\* remove(), last statement: if self.collision_object_id: delete_collision_object.
RemoveCollision ==
    /\ pc = "remove_collision"
    /\ IF Truthy(collision_object_id)
       THEN /\ mouse_ray_objects' = {}
            /\ last' = [last EXCEPT !.calls = << <<"delete_collision_object">> >>]
       ELSE UNCHANGED <<mouse_ray_objects, last>>
    /\ pc' = "removed"
    /\ UNCHANGED <<start_socket, end_socket, socket_edges, sphere_items,
                   pos_array, vertices, buffer, collision_object_id, edge_moved>>


\* ---------------------------------------------------------------- Camera
TARGET == <<0, 0, 0>>
DEFAULT_POS == <<0, 0, 3>>

VAdd(a, b) == <<a[1] + b[1], a[2] + b[2], a[3] + b[3]>>

\* The centres of the spheres of the universe (Sphere.xyz).
SphereCentres == {<<c, 0, 0>> : c \in 0..MaxCoord}

\* The camera positions the movement computations hand back.
CamPositions == {VAdd(c, DEFAULT_POS) : c \in SphereCentres}

\* _set_view and matrix44.create_look_at(xyz, target, camera_up): camera_up is
\* computed from xyz and target, so the matrix is a function of the two.
LookAt(eye, tgt) == [eye |-> eye, target |-> tgt]

CamOp(name) == [op |-> name, ret |-> None, arg |-> None]

\* Camera(parent): _init_variables, then the first view is published.
CamInit ==
    /\ xyz = DEFAULT_POS
    /\ target = TARGET
    /\ movement_stack = <<>>
    /\ target_stack = <<>>
    /\ view_loc = LookAt(DEFAULT_POS, TARGET)
    /\ cam_last = CamOp("__init__")

\* cm.move_to_new_target: a (position, target) pair is queued on the camera.
CmMoveToNewTarget(stack, v) == Append(stack, v)

MoveToNewTargetSphere(p, t) ==
    /\ Len(movement_stack) < MaxQueue
    /\ movement_stack' = CmMoveToNewTarget(movement_stack, p)
    /\ target_stack' = CmMoveToNewTarget(target_stack, t)
    /\ cam_last' = CamOp("move_to_new_target_sphere")
    /\ UNCHANGED <<xyz, target, view_loc>>

\* get_view_matrix: the look-at matrix is written to the shared slot and returned.
GetViewMatrix ==
    /\ view_loc' = LookAt(xyz, target)
    /\ cam_last' = [CamOp("get_view_matrix") EXCEPT !.ret = LookAt(xyz, target)]
    /\ UNCHANGED <<xyz, target, movement_stack, target_stack>>

\* process_movement: xyz is what cm.orbit_around_target returns; the view is
\* published again.
ProcessMovement(p) ==
    /\ xyz' = p
    /\ view_loc' = LookAt(p, target)
    /\ cam_last' = CamOp("process_movement")
    /\ UNCHANGED <<target, movement_stack, target_stack>>

\* The offsets reset_to_default_view is called with (default_pos).
DefaultOffsets == {DEFAULT_POS, <<0, 1, 3>>}

\* A reset that places the camera at the offset itself.
ResetPosition_NoTarget(centre, default_pos) == default_pos

\* reset_to_default_view: self.xyz = self.target + default_pos.
ResetPosition(centre, default_pos) == VAdd(centre, default_pos)

\* reset_to_default_view(target_sphere, default_pos): target and position are
\* set, cm.move_to_new_target queues a pair towards the sphere, and _set_view
\* recomputes the direction vectors; config.set_view_loc is not called.
ResetToDefaultView(c, default_pos, p) ==
    /\ Len(movement_stack) < MaxQueue
    /\ target' = c
    /\ xyz' = ResetPosition(c, default_pos)
    /\ movement_stack' = CmMoveToNewTarget(movement_stack, p)
    /\ target_stack' = CmMoveToNewTarget(target_stack, c)
    /\ cam_last' = [CamOp("reset_to_default_view") EXCEPT !.arg = <<c, default_pos>>]
    /\ UNCHANGED view_loc

\* A draw() that takes the newest queued pair.
DrawIndex_Last(stack) == Len(stack)

\* draw(): the index of the queued pair that is applied and deleted (Python's
\* index 0).
DrawIndex(stack) == 1

DeleteAt(stack, i) == [k \in 1..(Len(stack) - 1) |-> IF k < i THEN stack[k] ELSE stack[k + 1]]

CamDraw ==
    /\ IF Len(movement_stack) > 0
       THEN /\ xyz' = movement_stack[DrawIndex(movement_stack)]
            /\ target' = target_stack[DrawIndex(target_stack)]
            /\ movement_stack' = DeleteAt(movement_stack, DrawIndex(movement_stack))
            /\ target_stack' = DeleteAt(target_stack, DrawIndex(target_stack))
       ELSE UNCHANGED <<xyz, target, movement_stack, target_stack>>
    /\ view_loc' = LookAt(xyz', target')
    /\ cam_last' = CamOp("draw")

\* ------------------------------------------------------- specifications
Init == EdgeInit /\ CamInit

\* The edge's handlers; the camera is left alone.
Next ==
    \/ \E s \in Sockets \cup {None} : SetStartSocket(s) /\ UNCHANGED camVars
    \/ \E s \in Sockets \cup {None} : SetEndSocket(s) /\ UNCHANGED camVars
    \/ UpdatePosition /\ UNCHANGED camVars
    \/ \E value \in BOOLEAN : IsDragging(value) /\ UNCHANGED camVars
    \/ \E f \in DrawFailures : Draw(f) /\ UNCHANGED camVars
    \/ \E f \in LoadMeshFailures : LoadMeshIntoOpengl(f) /\ UNCHANGED camVars
    \/ RemoveStartSocket /\ UNCHANGED camVars
    \/ RemoveEndSocket /\ UNCHANGED camVars
    \/ RemoveItem /\ UNCHANGED camVars
    \/ RemoveCollision /\ UNCHANGED camVars

Spec == Init /\ [][Next]_vars

\* The camera's methods; the edge is left alone.
NextCam ==
    \/ \E p \in CamPositions, t \in SphereCentres :
          MoveToNewTargetSphere(p, t) /\ UNCHANGED edgeVars
    \/ GetViewMatrix /\ UNCHANGED edgeVars
    \/ \E p \in CamPositions : ProcessMovement(p) /\ UNCHANGED edgeVars
    \/ CamDraw /\ UNCHANGED edgeVars
    \/ \E c \in SphereCentres, default_pos \in DefaultOffsets, p \in CamPositions :
          ResetToDefaultView(c, default_pos, p) /\ UNCHANGED edgeVars

CamSpec == Init /\ [][NextCam]_vars

\* ------------------------------------------------------------------ claims
NoSocketHoldsEdge == \A s \in Sockets : socket_edges[s] = 0

RefsThrough(s) ==
    (IF start_socket = s THEN 1 ELSE 0) + (IF end_socket = s THEN 1 ELSE 0)

\* C1: between handler calls, a socket holds exactly one back-reference to the
\* edge for each endpoint it is currently assigned to, so a socket that was
\* assigned to an endpoint earlier and replaced holds none through it.
C1_OnlyCurrentSocketsHoldEdge ==
    pc = "idle" => \A s \in Sockets : socket_edges[s] = RefsThrough(s)

\* C1 witness: the edge was connected and updated, its end was unset, and
\* start_socket was assigned last, to socket 3: only socket 3 holds the edge.
C1_Witness ==
    /\ last.op = "start_socket"
    /\ start_socket = 3
    /\ end_socket = None
    /\ socket_edges = [s \in Sockets |-> IF s = 3 THEN 1 ELSE 0]
    /\ pos_array # <<>>

\* C2: once remove() has returned on an edge with both endpoints set, no socket
\* holds the edge and the collision backend holds no object for it.
C2_RemoveLeavesNothingBehind ==
    pc = "removed" => NoSocketHoldsEdge /\ mouse_ray_objects = {}

\* C3, as stated: when sphere.remove_item(edge) runs, no socket references the
\* edge and no collision object of the edge is registered.
C3_ForgottenLast ==
    [][(pc = "remove_item" /\ pc' = "remove_collision")
          => NoSocketHoldsEdge /\ mouse_ray_objects = {}]_vars

\* C3, amended: when sphere.remove_item(edge) runs, no socket references the
\* edge, and the collision backend still holds what update_position registered;
\* the collision object is released only once the sphere has forgotten the edge.
C3_DetachedThenForgottenThenReleased ==
    [][/\ (pc = "remove_item" /\ pc' = "remove_collision")
            => /\ NoSocketHoldsEdge
               /\ sphere_items /\ ~sphere_items'
               /\ mouse_ray_objects' = mouse_ray_objects
               /\ (collision_object_id # None => mouse_ray_objects # {})
       /\ (mouse_ray_objects # {} /\ mouse_ray_objects' = {})
            => ~sphere_items]_vars

\* C3 witness: the sphere has forgotten the edge, the sockets are detached and
\* the collision object is still registered.
C3_Witness ==
    /\ pc = "remove_collision"
    /\ ~sphere_items
    /\ NoSocketHoldsEdge
    /\ mouse_ray_objects # {}

\* C4, as stated: after update_position() has completed on an edge with both
\* sockets set, pos_array is non-empty.
C4_NonEmptyAfterUpdate ==
    (/\ last.op = "update_position"
     /\ ~last.raised
     /\ start_socket # None /\ end_socket # None)
        => pos_array # <<>>

\* C4, amended: an update_position() that completes on an edge with both
\* sockets set leaves n points in pos_array when the point count n is positive,
\* and leaves pos_array as it was when n = 0.
C4_PointsWhenCountPositive ==
    [][(/\ last'.op = "update_position"
        /\ ~last'.raised
        /\ start_socket' # None /\ end_socket' # None)
          => IF last'.n > 0
             THEN Len(pos_array') = last'.n /\ pos_array' # <<>>
             ELSE pos_array' = pos_array]_vars

\* C4 witness: update_position() has completed with a positive point count and
\* pos_array holds that many points.
C4_Witness ==
    /\ last.op = "update_position"
    /\ ~last.raised
    /\ start_socket # None /\ end_socket # None
    /\ last.n = MaxPoints
    /\ Len(pos_array) = MaxPoints

\* C5: update_position() on an edge with fewer than two sockets set does not
\* raise, changes neither pos_array, the vertex buffer nor the collision handle,
\* registers no collision object and makes no GL call.
C5_UpdateWithoutBothSocketsIsNoOp ==
    [][(/\ last'.op = "update_position"
        /\ (start_socket' = None \/ end_socket' = None))
          => /\ UNCHANGED <<pos_array, vertices, buffer, collision_object_id,
                            mouse_ray_objects>>
             /\ last'.calls = <<>>
             /\ ~last'.raised]_vars

\* C5 witness: update_position() was called with one socket set on an edge
\* that holds points and a collision handle from an earlier update.
C5_Witness ==
    /\ last.op = "update_position"
    /\ start_socket # None
    /\ end_socket = None
    /\ pos_array # <<>>
    /\ collision_object_id # None

\* C6: a draw() with a non-empty queue sets xyz and target to the oldest queued
\* pair and removes that pair and no other; a draw() with an empty queue leaves
\* xyz, target and the queue as they are.
C6_QueueConsumedFifo ==
    [][cam_last'.op = "draw"
          => IF movement_stack # <<>>
             THEN /\ xyz' = Head(movement_stack)
                  /\ target' = Head(target_stack)
                  /\ movement_stack' = Tail(movement_stack)
                  /\ target_stack' = Tail(target_stack)
             ELSE UNCHANGED <<xyz, target, movement_stack, target_stack>>]_vars

\* C6 witness: a draw() has applied a pair while a different pair was queued
\* behind it.
C6_Witness ==
    /\ cam_last.op = "draw"
    /\ Len(movement_stack) = 1
    /\ Len(target_stack) = 1
    /\ movement_stack[1] # xyz
    /\ target_stack[1] # target
    /\ view_loc = LookAt(xyz, target)

\* C7: the drag flag changes only in is_dragging(value), to value; the call
\* returns the flag; "edge moved" is stored exactly when the flag goes from
\* dragging to not dragging; a signal equal to the flag changes nothing.
C7_DragTransitions ==
    [][/\ edge_moved' # edge_moved
            => last'.op = "is_dragging" /\ last'.value = edge_moved'
       /\ last'.op = "is_dragging"
            => /\ edge_moved' = last'.value
               /\ last'.ret = edge_moved'
               /\ last'.calls =
                     IF edge_moved /\ ~edge_moved'
                     THEN << <<"store_history", "edge moved", TRUE>> >>
                     ELSE <<>>]_vars

\* C7 witness: a drag has just ended and its history entry was stored.
C7_Witness ==
    /\ last.op = "is_dragging"
    /\ ~edge_moved
    /\ last.calls = << <<"store_history", "edge moved", TRUE>> >>

\* C8: after update_position() with n >= 2 points, pos_array holds n points,
\* point i at interpolation parameter i / n from the clipped start, and the last
\* point is the end socket's position.
C8_LastPointAtEndSocket ==
    (/\ last.op = "update_position"
     /\ ~last.raised
     /\ start_socket # None /\ end_socket # None
     /\ last.n >= 2)
        => LET se == GetEdgeStartEnd(last.r, last.ln)
           IN  /\ Len(pos_array) = last.n
               /\ \A i \in 1..last.n :
                     pos_array[i] =
                        Position(Slerp(se.start, se.end, RNorm(<<i - 1, last.n>>)))
               /\ pos_array[last.n] = Position(One)

\* C9: the clearance fraction t = r / ln lies strictly between 0 and 1, and
\* the first point of the polyline is at t, strictly between the two sockets.
C9_ClearanceStrictlyBetween ==
    (/\ last.op = "update_position"
     /\ ~last.raised
     /\ last.n > 0)
        => LET t == GetEdgeStartEnd(last.r, last.ln).t
           IN  /\ RLess(Zero, t)
               /\ RLess(t, One)
               /\ pos_array[1] = Position(t)

\* C10: draw() makes no draw call when there are no vertices, and otherwise
\* its glDrawArrays covers as many vertices as pos_array has points.
C10_DrawCoversUploadedPoints ==
    last.op = "draw"
        => IF Len(vertices) = 0
           THEN last.calls = <<>>
           ELSE \E i \in DOMAIN last.calls :
                   /\ last.calls[i][1] = "glDrawArrays"
                   /\ last.calls[i][4] = Len(pos_array)

\* C11 (as stated): when reset_to_default_view has returned, the target is the
\* sphere's centre, the position is centre + offset and the shared view slot
\* already holds the look-at matrix of that position and target.
C11_ResetRepublishesView ==
    cam_last.op = "reset_to_default_view"
        => /\ target = cam_last.arg[1]
           /\ xyz = VAdd(cam_last.arg[1], cam_last.arg[2])
           /\ view_loc = LookAt(xyz, target)

\* C11 (amended): reset_to_default_view sets the target to the sphere's centre
\* and the position to centre + offset and leaves the shared view slot as it
\* was; a get_view_matrix() that follows it publishes and returns the look-at
\* matrix of that position and target.
C11_ResetSetsPoseNextGetPublishes ==
    [][/\ cam_last'.op = "reset_to_default_view"
            => /\ target' = cam_last'.arg[1]
               /\ xyz' = VAdd(cam_last'.arg[1], cam_last'.arg[2])
               /\ view_loc' = view_loc
       /\ (cam_last.op = "reset_to_default_view" /\ cam_last'.op = "get_view_matrix")
            => /\ view_loc' = LookAt(VAdd(cam_last.arg[1], cam_last.arg[2]), cam_last.arg[1])
               /\ cam_last'.ret = view_loc']_vars

\* A reset onto a sphere away from the origin has returned and the shared slot
\* still holds the matrix published before it.
C11_Witness ==
    /\ cam_last.op = "reset_to_default_view"
    /\ target # TARGET
    /\ xyz = VAdd(target, cam_last.arg[2])
    /\ view_loc # LookAt(xyz, target)

\* C12: when a shader or GL call made by draw() or by load_mesh_into_opengl()
\* raises, the exception is caught inside the method and does not reach the
\* caller.
C12_DrawFailuresNeverPropagate ==
    (last.op \in {"draw", "load_mesh_into_opengl"} /\ last.failed # 0)
        => ~last.raised

\* C13: remove() on an edge with zero or one endpoint socket set does not
\* raise, and once it has returned the sphere no longer holds the edge and no
\* socket references it.
C13_RemoveWithMissingEndpointCompletes ==
    (/\ last.op = "remove"
     /\ (start_socket = None \/ end_socket = None))
        => /\ ~last.raised
           /\ pc # "remove_raised"
           /\ (pc = "removed" => ~sphere_items /\ NoSocketHoldsEdge)

====
